---- MODULE Spec2Model ----
(***************************************************************************)
(* Model of br_documents.CPF (src/br_documents/__init__.py, Python 2).     *)
(*                                                                         *)
(* Text (str / unicode) is a sequence of one-character strings.  A Python  *)
(* int/long is a sign and a sequence of base-10000 limbs, most significant *)
(* first, without leading zero limbs: an 11-digit number does not fit the  *)
(* model checker's machine integers.  A CPF instance is a record           *)
(* [class, id, cpf]: id is the object identity (Python 2 falls back on it  *)
(* for != because the class defines no __ne__), cpf is self.cpf.           *)
(***************************************************************************)
EXTENDS Integers, Sequences, FiniteSets, TLC

VARIABLES pc, raw, self, err, op, idx, operand, ret

vars == <<pc, raw, self, err, op, idx, operand, ret>>

(***************************************************************************)
(* Python primitives used by the class                                     *)
(***************************************************************************)

DigitChars == <<"0", "1", "2", "3", "4", "5", "6", "7", "8", "9">>

DigitCharSet == {DigitChars[i] : i \in 1..10}

\* str(x) for an int 0 <= x <= 9
Str(d) == DigitChars[d + 1]

\* int(c) for a one-character digit string
ToInt(c) == CHOOSE d \in 0..9 : DigitChars[d + 1] = c

\* str(n) / unicode(n) for a natural number below 10000: no padding
RECURSIVE NatStr(_)
NatStr(n) == IF n < 10 THEN <<Str(n)>> ELSE Append(NatStr(n \div 10), Str(n % 10))

\* the four decimal digits of an inner limb of a long
Pad4(n) == <<Str(n \div 1000), Str((n \div 100) % 10), Str((n \div 10) % 10), Str(n % 10)>>

RECURSIVE LimbsStr(_)
LimbsStr(limbs) ==
    IF Len(limbs) = 1 THEN NatStr(limbs[1])
    ELSE LimbsStr(SubSeq(limbs, 1, Len(limbs) - 1)) \o Pad4(limbs[Len(limbs)])

\* a mutant of UnicodeInt: the decimal form zero-filled to 11 characters
RECURSIVE ZFill(_)
ZFill(s) == IF Len(s) >= 11 THEN s ELSE ZFill(<<"0">> \o s)

UnicodeInt_zfill(n) == IF n.neg THEN <<"-">> \o LimbsStr(n.limbs) ELSE ZFill(LimbsStr(n.limbs))

\* unicode(int(cpf)): the decimal form, "-" first for a negative number
UnicodeInt(n) == (IF n.neg THEN <<"-">> ELSE <<>>) \o LimbsStr(n.limbs)

\* ''.join(parts)
RECURSIVE Join(_)
Join(parts) == IF Len(parts) = 0 THEN <<>> ELSE Head(parts) \o Join(Tail(parts))

\* unicode.isdigit(): at least one character and every character a digit
IsDigit(s) == Len(s) > 0 /\ \A i \in 1..Len(s) : s[i] \in DigitCharSet

\* str(list of ints): '[1, 2, 3]'
RECURSIVE CommaJoin(_)
CommaJoin(l) ==
    IF Len(l) = 0 THEN <<>>
    ELSE IF Len(l) = 1 THEN NatStr(l[1])
    ELSE NatStr(l[1]) \o <<",", " ">> \o CommaJoin(Tail(l))

ListStr(l) == <<"[">> \o CommaJoin(l) \o <<"]">>

(***************************************************************************)
(* CPF.is_valid                                                            *)
(***************************************************************************)

\* (len(cpf) + 1 - i) * v for enumerate(cpf); i is 0-based
Weight_off(cpf, i) == (Len(cpf) - i) * cpf[i + 1]

Weight(cpf, i) == (Len(cpf) + 1 - i) * cpf[i + 1]

RECURSIVE SumTo(_, _)
SumTo(cpf, k) == IF k = 0 THEN 0 ELSE SumTo(cpf, k - 1) + Weight(cpf, k - 1)

\* r = sum(map(lambda (i, v): ..., enumerate(cpf))) % 11
Remainder(cpf) == SumTo(cpf, Len(cpf)) % 11

\* f = 11 - r if r > 1 else 0
VerificationDigit(cpf) == LET r == Remainder(cpf) IN IF r > 1 THEN 11 - r ELSE 0

\* while len(cpf) < 11: ... cpf.append(f)
RECURSIVE VerificationLoop(_)
VerificationLoop(cpf) ==
    IF Len(cpf) < 11 THEN VerificationLoop(Append(cpf, VerificationDigit(cpf))) ELSE cpf

\* map(lambda x: str(x)*11, range(0, 10))
invalid_cpfs == {[i \in 1..11 |-> Str(x)] : x \in 0..9}

\* a mutant of IsValid: self.cpf itself is cut to its first nine digits (the
\* slice is taken in place) and the digits are appended to a separate list
IsValid_alias(selfcpf) ==
    IF Len(selfcpf) = 0 THEN [exc |-> "ValueError", val |-> FALSE, cpf |-> selfcpf]
    ELSE IF ListStr(selfcpf) \in invalid_cpfs
         THEN [exc |-> "invalid_cpf", val |-> FALSE, cpf |-> selfcpf]
    ELSE LET cpf == VerificationLoop(SubSeq(selfcpf, 1, 9))
         IN  [exc |-> "none", val |-> (cpf = selfcpf), cpf |-> SubSeq(cpf, 1, 9)]

\* The property is_valid applied to an object whose self.cpf is selfcpf:
\* exc is the exception raised ("none": it returns val), cpf is self.cpf
\* afterwards (the working list is the copy self.cpf[:9]).
IsValid(selfcpf) ==
    IF Len(selfcpf) = 0 THEN [exc |-> "ValueError", val |-> FALSE, cpf |-> selfcpf]
    ELSE IF ListStr(selfcpf) \in invalid_cpfs
         THEN [exc |-> "invalid_cpf", val |-> FALSE, cpf |-> selfcpf]
    ELSE LET cpf == VerificationLoop(SubSeq(selfcpf, 1, 9))
         IN  [exc |-> "none", val |-> (cpf = selfcpf), cpf |-> selfcpf]

(***************************************************************************)
(* CPF.__init__                                                            *)
(***************************************************************************)

\* [str(x) for x in cpf if x not in ('-', '.')] for a string or a sequence of
\* one-character strings (elem = "str") or of small ints (elem = "int")
Kept(r) ==
    IF r.elem = "int" THEN [i \in 1..Len(r.ints) |-> NatStr(r.ints[i])]
    ELSE LET F[i \in 0..Len(r.val)] ==
                 IF i = 0 THEN <<>>
                 ELSE IF r.val[i] \in {"-", "."} THEN F[i - 1]
                 ELSE Append(F[i - 1], <<r.val[i]>>)
         IN  F[Len(r.val)]

\* a mutant of Normalise: separators are not removed
Normalise_keep(r) ==
    IF r.type \in {"list", "tuple", "basestring"}
    THEN IF r.elem = "int" THEN Join(Kept(r)) ELSE r.val
    ELSE UnicodeInt(r)

\* self.cpf after lines 57-60
Normalise(r) ==
    IF r.type \in {"list", "tuple", "basestring"} THEN Join(Kept(r))
    ELSE UnicodeInt(r)

Raise(e) == [ok |-> FALSE, err |-> e, cpf |-> <<>>]

\* a mutant of CPFInit: the length check precedes the digit-only check
CPFInit_lenfirst(r) ==
    LET s == Normalise(r) IN
    IF Len(s) # 11 THEN Raise("max_digits")
    ELSE IF ~IsDigit(s) THEN Raise("only_digits")
    ELSE LET v == IsValid([i \in 1..11 |-> ToInt(s[i])]) IN
         IF v.exc # "none" THEN Raise(v.exc)
         ELSE IF ~v.val THEN Raise("invalid_cpf")
         ELSE [ok |-> TRUE, err |-> "none", cpf |-> v.cpf]

\* CPF(r): ok with the stored self.cpf, or the exception raised
CPFInit(r) ==
    LET s == Normalise(r) IN
    IF ~IsDigit(s) THEN Raise("only_digits")
    ELSE IF Len(s) # 11 THEN Raise("max_digits")
    ELSE LET v == IsValid([i \in 1..11 |-> ToInt(s[i])]) IN
         IF v.exc # "none" THEN Raise(v.exc)
         ELSE IF ~v.val THEN Raise("invalid_cpf")
         ELSE [ok |-> TRUE, err |-> "none", cpf |-> v.cpf]

(***************************************************************************)
(* Accessors                                                               *)
(***************************************************************************)

\* s[lo:hi] with 0 <= lo, clamped to the length as Python slices are
PySlice(s, lo, hi) ==
    LET h == IF hi > Len(s) THEN Len(s) ELSE hi
    IN  IF lo >= h THEN <<>> ELSE [i \in 1..(h - lo) |-> s[lo + i]]

\* __unicode__ / __str__: ''.join(map(str, self.cpf))
Unicode(o) == Join([i \in 1..Len(o.cpf) |-> NatStr(o.cpf[i])])

\* __repr__: "<CPF: %s>" % self.__str__()
Repr(o) == <<"<", "C", "P", "F", ":", " ">> \o Unicode(o) \o <<">">>

\* a mutant of Formated: the second separator one place late
Formated_late(o) ==
    LET cpf == Unicode(o)
    IN  PySlice(cpf, 0, 3) \o <<".">> \o PySlice(cpf, 3, 7) \o <<".">>
            \o PySlice(cpf, 7, 9) \o <<"-">> \o PySlice(cpf, 9, Len(cpf))

\* formated: ''.join([cpf[:3], '.', cpf[3:6], '.', cpf[6:9], '-', cpf[9:]])
Formated(o) ==
    LET cpf == Unicode(o)
    IN  PySlice(cpf, 0, 3) \o <<".">> \o PySlice(cpf, 3, 6) \o <<".">>
            \o PySlice(cpf, 6, 9) \o <<"-">> \o PySlice(cpf, 9, Len(cpf))

Returns(v) == [exc |-> "none", val |-> v]

Raises(e) == [exc |-> e, val |-> "none"]

\* a mutant of GetItem: an index counted from the end is refused
GetItem_nonneg(o, i) ==
    IF 0 <= i /\ i < Len(o.cpf) THEN Returns(o.cpf[i + 1]) ELSE Raises("IndexError")

\* __getitem__: self.cpf[i] on a list, an index below 0 counts from the end
GetItem(o, i) ==
    IF 0 <= i /\ i < Len(o.cpf) THEN Returns(o.cpf[i + 1])
    ELSE IF i < 0 /\ i >= 0 - Len(o.cpf) THEN Returns(o.cpf[Len(o.cpf) + i + 1])
    ELSE Raises("IndexError")

\* __eq__: isinstance(other, CPF) and self.cpf == other.cpf
Eq(o, other) == other.class = "CPF" /\ o.cpf = other.cpf

\* o != other: the class defines no __ne__ and no __cmp__, so Python 2 uses
\* the default comparison of objects, which tells them apart by identity
Ne(o, other) == ~(other.class = "CPF" /\ other.id = o.id)

\* __len__
LenCPF(o) == 11

\* __nonzero__
Nonzero(o) == TRUE

\* __int__
IntCPF(o) == Raises("ValueError")

(***************************************************************************)
(* Values handed to the constructor                                        *)
(***************************************************************************)

\* longest input text explored, and longest run of separators alone
MaxLen == 13

MaxSeps == 2

\* largest index handed to __getitem__ (and, negated, the smallest)
MaxIdx == 12

\* the identifiers of the class doctest
Doctests == {<<8, 7, 2, 3, 4, 2, 3, 8, 1, 1, 5>>, <<2, 9, 0, 5, 7, 1, 3, 9, 3, 3, 2>>}

Repeated(d) == [k \in 1..11 |-> d]

\* nine leading digits: the doctests', the first doctest's with its first,
\* middle or last digit changed, and the repeated ones
Prefixes ==
    {SubSeq(b, 1, 9) : b \in Doctests}
        \cup {[<<8, 7, 2, 3, 4, 2, 3, 8, 1>> EXCEPT ![p] = d] : p \in {1, 5, 9}, d \in 0..9}
        \cup {SubSeq(Repeated(d), 1, 9) : d \in 0..9}

Chars(ds) == [k \in 1..Len(ds) |-> Str(ds[k])]

RECURSIVE DigitsVal(_)
DigitsVal(ds) ==
    IF Len(ds) = 0 THEN 0 ELSE 10 * DigitsVal(SubSeq(ds, 1, Len(ds) - 1)) + ds[Len(ds)]

RECURSIVE RawLimbs(_)
RawLimbs(ds) ==
    IF Len(ds) <= 4 THEN <<DigitsVal(ds)>>
    ELSE Append(RawLimbs(SubSeq(ds, 1, Len(ds) - 4)), DigitsVal(SubSeq(ds, Len(ds) - 3, Len(ds))))

RECURSIVE StripZeroLimbs(_)
StripZeroLimbs(l) == IF Len(l) > 1 /\ l[1] = 0 THEN StripZeroLimbs(Tail(l)) ELSE l

\* the int/long whose decimal digits are ds (leading zeros carry no value)
Limbs(ds) == StripZeroLimbs(RawLimbs(ds))

Text(t, cs) ==
    [type |-> t, elem |-> "str", val |-> cs, ints |-> <<>>, neg |-> FALSE, limbs |-> <<>>]

IntList(t, ds) ==
    [type |-> t, elem |-> "int", val |-> <<>>, ints |-> ds, neg |-> FALSE, limbs |-> <<>>]

Long(ds, n) ==
    [type |-> "long", elem |-> "none", val |-> <<>>, ints |-> <<>>,
     neg |-> (n /\ Limbs(ds) # <<0>>), limbs |-> Limbs(ds)]

\* 'DDD.DDD.DDD-DD' written out for eleven digits
Punctuated(ds) ==
    Chars(SubSeq(ds, 1, 3)) \o <<".">> \o Chars(SubSeq(ds, 4, 6)) \o <<".">>
        \o Chars(SubSeq(ds, 7, 9)) \o <<"-">> \o Chars(SubSeq(ds, 10, 11))

\* the ways one identifier is handed over: plain text, punctuated text, a list
\* of ints, a tuple of characters, a number
FormsOf(ds) ==
    {Text("basestring", Chars(ds)), Text("basestring", Punctuated(ds)),
     IntList("list", ds), Text("tuple", Chars(ds)), Long(ds, FALSE)}

\* digit runs of every length up to MaxLen, cut from or continuing a seed
Seeds == Doctests \cup {Repeated(1), Repeated(0)}

Run(sd, n) == [k \in 1..n |-> sd[((k - 1) % 11) + 1]]

OtherChars == {"X", ".", "-", " "}

Runs ==
    UNION {{Text("basestring", Chars(Run(sd, n))), IntList("list", Run(sd, n))}
              : sd \in Seeds, n \in 0..MaxLen}
        \cup {Long(Run(sd, n), sg) : sd \in Seeds, n \in 1..MaxLen, sg \in BOOLEAN}

\* the same runs with one character replaced by a separator or a non-digit
Spoiled ==
    UNION {{Text(t, [Chars(Run(sd, n)) EXCEPT ![p] = c]) : p \in 1..n}
              : sd \in Seeds, n \in 1..MaxLen, c \in OtherChars, t \in {"basestring", "tuple"}}

\* separators and nothing else
SepsOnly ==
    UNION {{Text("basestring", cs) : cs \in [1..n -> {".", "-"}]} : n \in 1..MaxSeps}

\* inputs that are not an identifier in one of its forms
Malformed == Runs \cup Spoiled \cup SepsOnly

None == [class |-> "NoneType", id |-> 0, cpf |-> <<>>, val |-> <<>>, limbs |-> <<>>]

Instance(n, ds) == [class |-> "CPF", id |-> n, cpf |-> ds, val |-> <<>>, limbs |-> <<>>]

\* a second instance, when the constructor accepts r
Built(r) == LET c == CPFInit(r) IN IF c.ok THEN {Instance(2, c.cpf)} ELSE {}

\* what an instance is compared with: itself, instances built from each form
\* of its own digits and of the doctests', the text and the number it came from
Others(o) ==
    {o} \cup UNION {Built(r) : r \in FormsOf(o.cpf) \cup UNION {FormsOf(ds) : ds \in Doctests}}
        \cup {[None EXCEPT !.class = "unicode", !.id = 3, !.val = Unicode(o)],
              [None EXCEPT !.class = "unicode", !.id = 4, !.val = Formated(o)],
              [None EXCEPT !.class = "long", !.id = 5, !.limbs = Limbs(o.cpf)]}

(***************************************************************************)
(* The object from construction on                                         *)
(***************************************************************************)

Init ==
    /\ pc = "start"
    /\ raw = Text("basestring", <<>>)
    /\ self = None
    /\ err = "none"
    /\ op = "none"
    /\ idx = 0
    /\ operand = None
    /\ ret = Returns("none")

\* CPF(r)
Construct(r) ==
    /\ pc = "start"
    /\ LET c == CPFInit(r) IN
        /\ pc' = IF c.ok THEN "constructed" ELSE "failed"
        /\ self' = IF c.ok THEN Instance(1, c.cpf) ELSE None
        /\ err' = c.err
    /\ raw' = r
    /\ UNCHANGED <<op, idx, operand, ret>>

\* CPF(r) for an identifier of Prefixes x 00..99 in each of its forms
ConstructIdentifier ==
    /\ pc = "start"
    /\ \E p \in Prefixes, a \in 0..9, b \in 0..9 : \E r \in FormsOf(p \o <<a, b>>) : Construct(r)

\* CPF(r) for the other inputs
ConstructMalformed ==
    /\ pc = "start"
    /\ \E r \in Malformed : Construct(r)

Call(name, k, o, result) ==
    /\ pc = "constructed"
    /\ op' = name
    /\ idx' = k
    /\ operand' = o
    /\ ret' = result
    /\ UNCHANGED <<pc, raw, err>>

\* self.is_valid
CallIsValid ==
    LET v == IsValid(self.cpf) IN
    /\ Call("is_valid", 0, None, [exc |-> v.exc, val |-> v.val])
    /\ self' = [self EXCEPT !.cpf = v.cpf]

CallStr == Call("__str__", 0, None, Returns(Unicode(self))) /\ UNCHANGED self

CallRepr == Call("__repr__", 0, None, Returns(Repr(self))) /\ UNCHANGED self

CallFormated == Call("formated", 0, None, Returns(Formated(self))) /\ UNCHANGED self

CallGetItem(k) == Call("__getitem__", k, None, GetItem(self, k)) /\ UNCHANGED self

CallLen == Call("__len__", 0, None, Returns(LenCPF(self))) /\ UNCHANGED self

CallNonzero == Call("__nonzero__", 0, None, Returns(Nonzero(self))) /\ UNCHANGED self

CallInt == Call("__int__", 0, None, IntCPF(self)) /\ UNCHANGED self

CallEq ==
    /\ pc = "constructed"
    /\ \E o \in Others(self) : Call("__eq__", 0, o, Returns(Eq(self, o)))
    /\ UNCHANGED self

CallNe ==
    /\ pc = "constructed"
    /\ \E o \in Others(self) : Call("!=", 0, o, Returns(Ne(self, o)))
    /\ UNCHANGED self

Next ==
    \/ ConstructIdentifier
    \/ ConstructMalformed
    \/ CallIsValid
    \/ CallStr
    \/ CallRepr
    \/ CallFormated
    \/ \E k \in (0 - MaxIdx)..MaxIdx : CallGetItem(k)
    \/ CallLen
    \/ CallNonzero
    \/ CallInt
    \/ CallEq
    \/ CallNe

Spec == Init /\ [][Next]_vars

(***************************************************************************)
(* Properties                                                              *)
(***************************************************************************)

AllDigits(s) == \A k \in 1..Len(s) : s[k] \in DigitCharSet

\* the two check digits of nine leading digits, written out from the rule:
\* weights 10..2, then 11..2 with the first check digit included
CheckDigit(sum) == IF sum % 11 <= 1 THEN 0 ELSE 11 - (sum % 11)

Tenth(d) ==
    CheckDigit(10 * d[1] + 9 * d[2] + 8 * d[3] + 7 * d[4] + 6 * d[5]
                   + 5 * d[6] + 4 * d[7] + 3 * d[8] + 2 * d[9])

Eleventh(d) ==
    CheckDigit(11 * d[1] + 10 * d[2] + 9 * d[3] + 8 * d[4] + 7 * d[5]
                   + 6 * d[6] + 5 * d[7] + 4 * d[8] + 3 * d[9] + 2 * Tenth(d))

ChecksOut(d) == d[10] = Tenth(d) /\ d[11] = Eleventh(d)

AllSame(d) == \A k \in 1..Len(d) : d[k] = d[1]

Rejected(e) == pc = "failed" /\ err = e /\ self = None

\* C1: every repeated-digit input (text, list, 11-digit number) is rejected
\* with invalid_cpf, and no instance holds eleven identical digits.
C1_DegenerateRejected ==
    /\ \A d \in 0..9 :
          (pc # "start" /\ raw \in {Text("basestring", Chars(Repeated(d))),
                                    IntList("list", Repeated(d))}
                                       \cup (IF d = 0 THEN {} ELSE {Long(Repeated(d), FALSE)}))
              => Rejected("invalid_cpf")
    /\ pc = "constructed" => ~AllSame(self.cpf)

\* C2: eleven digits, not all identical, are accepted exactly when the last
\* two are the check digits of the first nine, and refused with invalid_cpf
\* otherwise; an instance holds digits 0..9 ending in its check digits, and
\* the same digits with another last digit are refused.
C2_CheckDigits ==
    /\ (pc # "start" /\ Len(Normalise(raw)) = 11 /\ AllDigits(Normalise(raw)))
          => LET d == [k \in 1..11 |-> ToInt(Normalise(raw)[k])] IN
             AllSame(d) \/ IF ChecksOut(d) THEN pc = "constructed" /\ self.cpf = d
                           ELSE Rejected("invalid_cpf")
    /\ pc = "constructed"
          => /\ Len(self.cpf) = 11
             /\ \A k \in 1..11 : self.cpf[k] \in 0..9
             /\ ChecksOut(self.cpf)
             /\ \A x \in 0..9 \ {self.cpf[11]} :
                   LET c == CPFInit(Text("basestring", Chars([self.cpf EXCEPT ![11] = x])))
                   IN  ~c.ok /\ c.err = "invalid_cpf"

C2_Witness ==
    /\ pc = "constructed"
    /\ raw = Text("basestring", Chars(<<8, 7, 2, 3, 4, 2, 3, 8, 1, 1, 5>>))
    /\ self.cpf = <<8, 7, 2, 3, 4, 2, 3, 8, 1, 1, 5>>

\* C3: a normalized string of digits only whose length is not 11, the empty
\* one included, is rejected with max_digits.
C3_LengthCheck ==
    (pc # "start" /\ AllDigits(Normalise(raw)) /\ Len(Normalise(raw)) # 11)
        => Rejected("max_digits")

\* C4: a normalized string with a character that is not a digit is rejected
\* with only_digits whatever its length and check digits; so is a text with a
\* character other than a digit, '.' or '-', and so is a negative number.
C4_OnlyDigitsFirst ==
    pc # "start" =>
        /\ ~AllDigits(Normalise(raw)) => Rejected("only_digits")
        /\ (raw.elem = "str" /\ \E k \in 1..Len(raw.val) : raw.val[k] \notin DigitCharSet \cup {".", "-"})
              => Rejected("only_digits")
        /\ (raw.type = "long" /\ raw.neg) => Rejected("only_digits")

C4_Witness ==
    /\ Rejected("only_digits")
    /\ raw.type = "basestring"
    /\ Len(raw.val) = 12
    /\ raw.val[12] = "X"

Stripped(s) == SelectSeq(s, LAMBDA c : c \notin {".", "-"})

\* C5: a text s of eleven digits ending in its check digits is accepted
\* (repeated digits aside), and for the instance built from it the string
\* form is s, the formatted form is DDD.DDD.DDD-DD and is s without its
\* separators, and the constructor given the formatted form stores the same
\* digits.
C5_RoundTrip ==
    (pc # "start" /\ raw.type = "basestring" /\ Len(raw.val) = 11 /\ AllDigits(raw.val)
        /\ ChecksOut([k \in 1..11 |-> ToInt(raw.val[k])]))
        => /\ pc = "constructed" \/ AllSame(raw.val)
           /\ pc = "constructed"
                 => /\ Unicode(self) = raw.val
                    /\ op = "__str__" => ret = Returns(raw.val)
                    /\ LET f == Formated(self) IN
                         /\ Len(f) = 14
                         /\ \A k \in 1..14 :
                               f[k] = IF k \in {4, 8} THEN "."
                                      ELSE IF k = 12 THEN "-" ELSE raw.val[k - (k \div 4)]
                         /\ Stripped(f) = raw.val
                         /\ op = "formated" => ret = Returns(f)
                         /\ LET c == CPFInit(Text("basestring", f)) IN c.ok /\ c.cpf = self.cpf

C5_Witness ==
    /\ op = "formated"
    /\ raw = Text("basestring", Chars(<<2, 9, 0, 5, 7, 1, 3, 9, 3, 3, 2>>))
    /\ ret.val = <<"2", "9", "0", ".", "5", "7", "1", ".", "3", "9", "3", "-", "3", "2">>

\* the forms of an identifier the constructor can take it in: the number
\* only when the first digit is not 0
UsableForms(d) == {r \in FormsOf(d) : r.type # "long" \/ d[1] # 0}

\* C6: == holds exactly between instances with the same eleven digits: the
\* instances built from the text, the formatted text, the list, the tuple and
\* (first digit not 0) the number of one identifier are pairwise equal, and
\* an instance equals no text or number.
C6_Equality ==
    /\ op = "__eq__"
          => ret.val = (operand.class = "CPF" /\ \A k \in 1..11 : operand.cpf[k] = self.cpf[k])
    /\ pc = "constructed"
          => LET built == [r \in UsableForms(self.cpf) |-> CPFInit(r)] IN
             \A r1 \in DOMAIN built, r2 \in DOMAIN built :
                /\ built[r1].ok
                /\ Eq(Instance(2, built[r1].cpf), Instance(3, built[r2].cpf))
                /\ Eq(self, Instance(2, built[r1].cpf))
                /\ Eq(Instance(2, built[r1].cpf), self)

C6_Witness ==
    /\ op = "__eq__"
    /\ raw = Text("basestring", Punctuated(<<2, 9, 0, 5, 7, 1, 3, 9, 3, 3, 2>>))
    /\ operand = Instance(2, <<2, 9, 0, 5, 7, 1, 3, 9, 3, 3, 2>>)
    /\ ret.val = TRUE

\* C7 as stated: indexed access returns the digit at i for 0 <= i <= 10 and
\* fails with an indexing error for every other i, every negative i included
\* (read on an instance whose digits are not all the same).
C7_NegativeRefused ==
    (op = "__getitem__" /\ ~AllSame(self.cpf))
        => IF idx \in 0..10 THEN ret = Returns(self.cpf[idx + 1]) ELSE ret = Raises("IndexError")

\* C7: indexed access returns the digit at i for 0 <= i <= 10, the digit at
\* 11 + i for -11 <= i <= -1, and fails with an indexing error for every
\* other i.
C7_Indexing ==
    op = "__getitem__"
        => IF idx \in 0..10 THEN ret = Returns(self.cpf[idx + 1])
           ELSE IF idx \in -11..-1 THEN ret = Returns(self.cpf[12 + idx])
           ELSE ret = Raises("IndexError")

C7_Witness == op = "__getitem__" /\ idx = -1 /\ ret = Returns(self.cpf[11])

\* C8: construction stores eleven digits, and from then on no accessor call
\* changes them: not is_valid, whatever it appends to its working list; an
\* accessor called again with the same argument gives the same result.
C8_Immutable ==
    [][/\ pc' = "constructed" => Len(self'.cpf) = 11
       /\ pc = "constructed"
             => /\ pc' = "constructed"
                /\ self' = self
                /\ (op' = op /\ idx' = idx /\ operand' = operand)
                      => ret'.exc = ret.exc /\ (ret.exc = "none" => ret'.val = ret.val)
                /\ op' = "is_valid" => ret' = Returns(TRUE)
                /\ op' = "__len__" => ret' = Returns(Len(self.cpf))
                /\ op' = "__int__" => ret'.exc = "ValueError"]_vars

C8_Witness == op = "is_valid" /\ ret = Returns(TRUE) /\ Len(self.cpf) = 11

\* number of decimal digits of a long
SignificantDigits(n) ==
    4 * (Len(n.limbs) - 1)
        + (IF n.limbs[1] < 10 THEN 1 ELSE IF n.limbs[1] < 100 THEN 2
           ELSE IF n.limbs[1] < 1000 THEN 3 ELSE 4)

\* C9 as stated: every integer with fewer than 11 significant digits is
\* rejected with max_digits.
C9_EveryShortInteger ==
    (pc # "start" /\ raw.type = "long" /\ SignificantDigits(raw) < 11) => Rejected("max_digits")

\* C9: every integer that is not negative and has fewer than 11 significant
\* digits is rejected with max_digits (a negative one with only_digits); for
\* a valid identifier whose first digit is 0 the text is accepted and the
\* number is rejected with max_digits.
C9_LeadingZeros ==
    /\ (pc # "start" /\ raw.type = "long" /\ SignificantDigits(raw) < 11)
          => Rejected(IF raw.neg THEN "only_digits" ELSE "max_digits")
    /\ (pc = "constructed" /\ self.cpf[1] = 0)
          => /\ raw.type # "long"
             /\ CPFInit(Text("basestring", Chars(self.cpf))).ok
             /\ CPFInit(Long(self.cpf, FALSE)) = Raise("max_digits")

C9_Witness ==
    /\ Rejected("max_digits")
    /\ raw = Long(<<0, 7, 2, 3, 4, 2, 3, 8, 1, 4, 0>>, FALSE)
    /\ CPFInit(Text("basestring", Chars(<<0, 7, 2, 3, 4, 2, 3, 8, 1, 4, 0>>))).ok

\* C10: a != b is the negation of a == b for any two instances (read on
\* instances whose digits are not all the same).
C10_NeNegatesEq ==
    (op = "!=" /\ operand.class = "CPF" /\ ~AllSame(self.cpf)) => ret.val = ~Eq(self, operand)

====
